---- MODULE Spec2Model ----
(***************************************************************************)
(* Model of the two pipelines of the Alabama DOC scraper.                  *)
(*                                                                         *)
(*   phase 1, collect_ais.py : one task per search term pages through the  *)
(*            listing form and scrapes identifiers; a completion loop      *)
(*            merges the per-term sets and the checkpoint list is saved.   *)
(*   phase 2, process_ais.py : one task per identifier walks the request   *)
(*            chain landing GET -> search POST -> details POST, parses the *)
(*            details page into records; a completion loop appends them to *)
(*            the output table, which a later run reads to resume.         *)
(*                                                                         *)
(* A task's steps are cut at its blocking requests: an action takes the    *)
(* answer to the pending request, runs the code up to the next request (or *)
(* the return) and sends that request.  What the server answers is chosen  *)
(* with \E from bounded sets of pages.                                     *)
(***************************************************************************)
EXTENDS Integers, Sequences, FiniteSets, TLC

\* ------------------------------------------------------------------ bounds
\* number of search terms of SEARCH_TERMS that are run (the code runs 26)
NumTerms == 2
\* number of distinct identifiers the server knows
NumIds == 2
\* the mock server's listing has at most MaxPages pages per term: the page it
\* serves as number MaxPages (or later) has no usable next-page control
MaxPages == 3

\* --------------------------------------------------------------- constants
SEARCH_TERMS == <<"a", "b", "c", "d">>
IdStrings == <<"1", "2", "3", "4">>
Terms == {SEARCH_TERMS[i] : i \in 1..NumTerms}
Ids == {IdStrings[i] : i \in 1..NumIds}

BASE_URL == "inmatesearch.aspx"
DETAILS_URL == "InmateInfo.aspx"
None == "None"
BtnNext == "ctl00$MainContent$btnNext"

\* the three hidden fields every postback has to carry
RequiredHidden == {"__VIEWSTATE", "__VIEWSTATEGENERATOR", "__EVENTVALIDATION"}
\* the sets of hidden inputs a served page may hold: the three required ones
\* with the form's own __EVENTTARGET input, the three alone, one missing
HiddenSets ==
    { RequiredHidden \cup {"__EVENTTARGET"},
      RequiredHidden,
      RequiredHidden \ {"__EVENTVALIDATION"} }

\* the value of every hidden input of the n-th response of a session
TokenTable == <<"tok0", "tok1", "tok2", "tok3", "tok4", "tok5", "tok6">>
Token(n) == TokenTable[n + 1]

\* dict.update: the entries of g win
Update(f, g) ==
    [k \in (DOMAIN f) \cup (DOMAIN g) |-> IF k \in DOMAIN g THEN g[k] ELSE f[k]]

EmptyDict == [k \in {} |-> None]

\* ------------------------------------------------------- phase 1: the pages
\* first-cell texts of the rows of the results table: identifiers and a banner
CellTexts == Ids \cup {"No results"}
isdigit(s) == s \in {IdStrings[i] : i \in 1..Len(IdStrings)}

\* the next-page button: absent, or present with its disabled attribute absent
\* ("enabled"), carrying a value ("disabled") or bare, value "" ("bare")
NextControls == {"absent", "enabled", "disabled", "bare"}

\* a listing page, the n-th response of its session
ListingPages(n) ==
    [ hasTable : BOOLEAN,
      cells    : SUBSET CellTexts,
      next     : NextControls,
      hidden   : HiddenSets,
      serial   : {n} ]

\* what the mock server may serve as listing page number n
ServedListingPages(n) ==
    { p \in ListingPages(n) :
        /\ (~p.hasTable => p.cells = {})
        /\ (n >= MaxPages => p.next \in {"absent", "disabled"}) }

LandingPages == [hidden : HiddenSets, serial : {0}]

HiddenInputs(page) == [k \in page.hidden |-> Token(page.serial)]

\* ---------------------------------------------------------------- variables
VARIABLES
    \* phase 1, per term
    pc,                 \* where the task of the term stands
    term_ais_numbers,   \* the running set of _paginate_and_scrape
    page_num,           \* its page counter
    found_on_page,      \* identifiers scraped from the page just handled
    next_page_target,   \* next-page control found on it, or None
    req,                \* the last request the task's session sent
    nreq,               \* how many requests it sent
    result,             \* what collect_for_term returned
    \* phase 1, the controlling thread
    main_pc,
    all_ais_numbers,
    collected,
    checkpoint_file,
    \* phase 2, per identifier
    pc2,                \* where the task of the identifier stands
    initial_soup,       \* the landing page the task received, or NoLanding
    results_soup,       \* the search-result page the task received, or NoPage
    final_soup,         \* the details page the task received, or NoDetails
    req2,               \* the last request the task's session sent
    ndetails,           \* how many requests it sent to the details endpoint
    raised,             \* the exception process_single_ais caught, or None
    result2,            \* the records process_single_ais returned
    \* phase 2, the controlling thread
    run_no,
    main2_pc,
    processed_ais_set,
    is_resuming,
    numbers_to_process,
    writer,
    processed_count,
    collected2,
    csv_file,
    \* history of phase 2, kept for the properties
    start_lines,        \* the lines of the output table when the run started
    prev_completed,     \* whether the run before this one ran to its end
    prev_errors,        \* identifiers whose Error outcome that run recorded
    run_errors          \* identifiers whose Error outcome this run recorded

collectVars ==
    << pc, term_ais_numbers, page_num, found_on_page, next_page_target, req,
       nreq, result, main_pc, all_ais_numbers, collected, checkpoint_file >>

taskVars2 == << pc2, initial_soup, results_soup, final_soup, req2, ndetails, raised, result2 >>

mainVars2 ==
    << run_no, main2_pc, processed_ais_set, is_resuming, numbers_to_process,
       writer, processed_count, collected2, csv_file, start_lines,
       prev_completed, prev_errors, run_errors >>

processVars == << taskVars2, mainVars2 >>

vars == << collectVars, processVars >>

NoRequest == [method |-> None, url |-> None, data |-> EmptyDict, timeout |-> None]

\* ------------------------------------------------------ phase 1: functions
\* the same replaying the tokens captured on the landing page
extract_form_payload_landing_tokens(page) == [k \in page.hidden |-> Token(0)]

extract_form_payload(page) == HiddenInputs(page)

scrape_ais_numbers_from_page(page) ==
    IF ~page.hasTable THEN {} ELSE {c \in page.cells : isdigit(c)}

\* the same without the check of the disabled attribute
get_next_page_target_any_button(page) ==
    IF page.next = "absent" THEN None ELSE BtnNext

get_next_page_target(page) ==
    IF page.next = "absent" \/ page.next = "disabled" THEN None ELSE BtnNext

\* session.get / session.post of collect_ais.py pass no timeout
CollectTimeout == None

CollectStart ==
    /\ pc = [t \in Terms |-> "submitted"]
    /\ term_ais_numbers = [t \in Terms |-> {}]
    /\ page_num = [t \in Terms |-> 0]
    /\ found_on_page = [t \in Terms |-> {}]
    /\ next_page_target = [t \in Terms |-> None]
    /\ req = [t \in Terms |-> NoRequest]
    /\ nreq = [t \in Terms |-> 0]
    /\ result = [t \in Terms |-> [numbers |-> {}, duration |-> "unset"]]
    /\ main_pc = "as_completed"
    /\ all_ais_numbers = {}
    /\ collected = {}
    /\ checkpoint_file = [state |-> "absent", lines |-> <<>>]

\* the same with the task adding what it scraped to the accumulated set itself
MainUnchanged_task_merges ==
    /\ UNCHANGED << main_pc, collected, checkpoint_file >>
    /\ all_ais_numbers' =
          all_ais_numbers \cup UNION { term_ais_numbers'[t] : t \in Terms }

MainUnchanged == UNCHANGED << main_pc, all_ais_numbers, collected, checkpoint_file >>

Send(t, method, url, data) ==
    /\ req' = [req EXCEPT ![t] = [method |-> method, url |-> url, data |-> data,
                                  timeout |-> CollectTimeout]]
    /\ nreq' = [nreq EXCEPT ![t] = @ + 1]

\* the same returning what the term had scraped before the error
TermFails_keeping_pages(t) ==
    /\ pc' = [pc EXCEPT ![t] = "returned"]
    /\ result' = [result EXCEPT ![t] =
                    [numbers |-> term_ais_numbers[t], duration |-> "zero"]]
    /\ UNCHANGED << term_ais_numbers, page_num, found_on_page, next_page_target,
                    req, nreq >>

\* collect_for_term's except branch: the term returns the empty set
TermFails(t) ==
    /\ pc' = [pc EXCEPT ![t] = "returned"]
    /\ result' = [result EXCEPT ![t] = [numbers |-> {}, duration |-> "zero"]]
    /\ UNCHANGED << term_ais_numbers, page_num, found_on_page, next_page_target,
                    req, nreq >>

\* collect_for_term up to the landing GET of _perform_initial_search
StartTerm(t) ==
    /\ pc[t] = "submitted"
    /\ pc' = [pc EXCEPT ![t] = "get_landing"]
    /\ Send(t, "GET", BASE_URL, EmptyDict)
    /\ UNCHANGED << term_ais_numbers, page_num, found_on_page, next_page_target,
                    result >>
    /\ MainUnchanged

\* the landing page arrives: build the search payload and post it
LandingArrives(t) ==
    /\ pc[t] = "get_landing"
    /\ \E page \in LandingPages :
         /\ pc' = [pc EXCEPT ![t] = "post_search"]
         /\ Send(t, "POST", BASE_URL,
                 Update(extract_form_payload(page),
                        [k \in {"ctl00$MainContent$txtLName",
                                "ctl00$MainContent$btnSearch"} |->
                           IF k = "ctl00$MainContent$txtLName" THEN t ELSE "Search"]))
    /\ UNCHANGED << term_ais_numbers, page_num, found_on_page, next_page_target,
                    result >>
    /\ MainUnchanged

\* the same with the stall check applied to the first page as well
LoopContinues_stall_on_any_page(target, newly_found_count, n) ==
    /\ target # None
    /\ newly_found_count # 0

\* whether the loop of _paginate_and_scrape goes on to request the next page
LoopContinues(target, newly_found_count, n) ==
    /\ target # None
    /\ ~(newly_found_count = 0 /\ n > 1)

\* one iteration of the loop of _paginate_and_scrape on listing page number n
LoopIteration(t, page, n) ==
    LET found == scrape_ais_numbers_from_page(page)
        newly_found_count == Cardinality(found \ term_ais_numbers[t])
        numbers == term_ais_numbers[t] \cup found
        target == get_next_page_target(page)
    IN  /\ page_num' = [page_num EXCEPT ![t] = n]
        /\ found_on_page' = [found_on_page EXCEPT ![t] = found]
        /\ term_ais_numbers' = [term_ais_numbers EXCEPT ![t] = numbers]
        /\ next_page_target' = [next_page_target EXCEPT ![t] = target]
        /\ IF LoopContinues(target, newly_found_count, n)
           THEN /\ n <= MaxPages + 1
                /\ pc' = [pc EXCEPT ![t] = "post_next"]
                /\ Send(t, "POST", BASE_URL,
                        Update(extract_form_payload(page),
                               [k \in {"__EVENTTARGET"} |-> target]))
                /\ UNCHANGED result
           ELSE /\ pc' = [pc EXCEPT ![t] = "returned"]
                /\ result' = [result EXCEPT ![t] =
                                [numbers |-> numbers, duration |-> "positive"]]
                /\ UNCHANGED << req, nreq >>

\* the answer to the search POST arrives: first iteration of the loop
SearchArrives(t) ==
    /\ pc[t] = "post_search"
    /\ \E page \in ServedListingPages(1) : LoopIteration(t, page, 1)
    /\ MainUnchanged

\* the answer to a next-page POST arrives: page_num += 1, next iteration
NextArrives(t) ==
    /\ pc[t] = "post_next"
    /\ \E page \in ServedListingPages(page_num[t] + 1) :
         LoopIteration(t, page, page_num[t] + 1)
    /\ MainUnchanged

\* a request ends in a transport error or a non-2xx status (raise_for_status)
RequestFails(t) ==
    /\ pc[t] \in {"get_landing", "post_search", "post_next"}
    /\ TermFails(t)
    /\ MainUnchanged

\* the server never answers; without a timeout the call never returns
RequestUnanswered(t) ==
    /\ pc[t] \in {"get_landing", "post_search", "post_next"}
    /\ IF req[t].timeout = None
       THEN /\ pc' = [pc EXCEPT ![t] = "blocked"]
            /\ UNCHANGED << term_ais_numbers, page_num, found_on_page,
                            next_page_target, req, nreq, result >>
       ELSE TermFails(t)
    /\ MainUnchanged

TaskUnchanged ==
    UNCHANGED << pc, term_ais_numbers, page_num, found_on_page, next_page_target,
                 req, nreq, result >>

\* the same with the term's set assigned instead of merged
CollectResult_replacing(t) ==
    /\ main_pc = "as_completed"
    /\ pc[t] = "returned"
    /\ t \notin collected
    /\ collected' = collected \cup {t}
    /\ all_ais_numbers' = IF result[t].numbers # {}
                          THEN result[t].numbers
                          ELSE all_ais_numbers
    /\ main_pc' = IF collected' = Terms THEN "save" ELSE "as_completed"
    /\ UNCHANGED checkpoint_file
    /\ TaskUnchanged

\* one turn of the as_completed loop of _run_concurrent_collection
CollectResult(t) ==
    /\ main_pc = "as_completed"
    /\ pc[t] = "returned"
    /\ t \notin collected
    /\ collected' = collected \cup {t}
    /\ all_ais_numbers' = IF result[t].numbers # {}
                          THEN all_ais_numbers \cup result[t].numbers
                          ELSE all_ais_numbers
    /\ main_pc' = IF collected' = Terms THEN "save" ELSE "as_completed"
    /\ UNCHANGED checkpoint_file
    /\ TaskUnchanged

RECURSIVE SortedSeq(_, _)
\* the elements of set S in the order of sequence order
SortedSeq(S, order) ==
    IF order = <<>> THEN <<>>
    ELSE IF Head(order) \in S
         THEN <<Head(order)>> \o SortedSeq(S, Tail(order))
         ELSE SortedSeq(S, Tail(order))

\* sorted(list(numbers)) on the strings of IdStrings
sorted_numbers(numbers) == SortedSeq(numbers, IdStrings)

\* _save_results_to_file: open(filename, 'w') truncates the file
SaveOpen ==
    /\ main_pc = "save"
    /\ checkpoint_file' = [state |-> "open", lines |-> <<>>]
    /\ main_pc' = "write"
    /\ UNCHANGED << all_ais_numbers, collected >>
    /\ TaskUnchanged

\* _save_results_to_file: one f.write per number, then the file is closed
SaveWrite ==
    /\ main_pc = "write"
    /\ LET todo == sorted_numbers(all_ais_numbers)
           k == Len(checkpoint_file.lines)
       IN  IF k < Len(todo)
           THEN /\ checkpoint_file' =
                      [checkpoint_file EXCEPT !.lines = Append(@, todo[k + 1])]
                /\ main_pc' = "write"
           ELSE /\ checkpoint_file' = [checkpoint_file EXCEPT !.state = "closed"]
                /\ main_pc' = "done"
    /\ UNCHANGED << all_ais_numbers, collected >>
    /\ TaskUnchanged


\* ------------------------------------------------------- phase 2: the pages
\* the detail link of a search-result page: absent, without an href attribute,
\* with an href holding no quote character, or well-formed
LinkShapes == {"absent", "no_href", "no_quote", "ok"}
LinkTarget == "ctl00$MainContent$gvInmateResults$ctl02$lnkInmateName"

\* a search-result page, the second response of its session
ResultPages == [hidden : HiddenSets, link : LinkShapes, serial : {1}]
NoPage == [hidden |-> {}, link |-> None, serial |-> 0]
\* what initial_soup holds before the landing page has arrived
NoLanding == [hidden |-> {}, serial |-> 0]

\* the column names the records can hold, in the order sorted() gives them
KeyOrder ==
    << "AIS #", "Aliases", "Incarceration Admit Date", "Inmate Name",
       "Institution", "Race", "Scars_Marks and Tattoos", "Sentence Case No",
       "Status" >>

\* the summary table: present or not, its number of rows, and the text of the
\* span of row 1 (None when that cell holds no span)
SummaryShapes ==
    { [table |-> FALSE, nrows |-> 0, span |-> None],
      [table |-> TRUE, nrows |-> 1, span |-> None],
      [table |-> TRUE, nrows |-> 4, span |-> None],
      [table |-> TRUE, nrows |-> 4, span |-> ""] }
    \cup { [table |-> TRUE, nrows |-> 4, span |-> i] : i \in Ids }

\* the nested sentence table of an incarceration summary table: present or
\* not, its number of rows (header row included), header cells, cells per row
NoNested == [present |-> FALSE, ntr |-> 0, nth |-> 0, ncells |-> 0]
Nested(ntr, nth, ncells) ==
    [present |-> TRUE, ntr |-> ntr, nth |-> nth, ncells |-> ncells]

\* the incarceration summary tables of a page, in document order
HistoryShapes ==
    { <<>>,
      << [nrows |-> 2, nested |-> Nested(2, 1, 1)] >>,
      << [nrows |-> 2, nested |-> Nested(2, 1, 1)],
         [nrows |-> 2, nested |-> Nested(3, 1, 1)] >>,
      << [nrows |-> 2, nested |-> NoNested] >>,
      << [nrows |-> 1, nested |-> Nested(2, 1, 1)] >>,
      << [nrows |-> 2, nested |-> Nested(0, 0, 0)] >>,
      << [nrows |-> 2, nested |-> Nested(2, 1, 2)] >> }

\* text sections: no header block, a header without items, the placeholder
\* "No known ...", or real items
SectionShapes == {"no_header", "no_items", "placeholder", "items"}

DetailPage(summary, demo, aliases, marks, history) ==
    [ summary |-> summary, demographics |-> demo, aliases |-> aliases,
      marks |-> marks, history |-> history ]

NoDemographics == [table |-> FALSE, keycells |-> {}]
Demographics == [table |-> TRUE, keycells |-> {"Race:", ""}]

\* a page with none of the blocks the parser looks for; also what final_soup
\* holds before a details page has arrived
NoDetails ==
    DetailPage([table |-> FALSE, nrows |-> 0, span |-> None], NoDemographics,
               "no_header", "no_header", <<>>)

\* the details pages the server may answer a request for identifier x with:
\* a page with nothing on it, every summary shape without incarceration
\* history, and the regular summary with every history shape
DetailPages(x) ==
    { DetailPage(s, IF s.table THEN Demographics ELSE NoDemographics,
                 IF s.table THEN "items" ELSE "no_header",
                 IF s.table THEN "placeholder" ELSE "no_header", <<>>) :
        s \in SummaryShapes }
    \cup
    { DetailPage([table |-> TRUE, nrows |-> 4, span |-> x], Demographics,
                 "items", "placeholder", h) : h \in HistoryShapes }

\* ------------------------------------------------------ phase 2: functions
\* whether parse_hidden_inputs raises ValueError on the page
hidden_input_missing(page) == ~(RequiredHidden \subseteq page.hidden)

\* its result otherwise: the three required fields only
parse_hidden_inputs(page) == [k \in RequiredHidden |-> Token(page.serial)]

Rec1(k, v) == [x \in {k} |-> v]

parse_inmate_summary(page, fallback_ais_num) ==
    LET s == page.summary
    IN  IF ~s.table THEN Rec1("AIS #", fallback_ais_num)
        ELSE Update(Update(
                 IF s.nrows > 0 THEN Rec1("Inmate Name", "NAME") ELSE EmptyDict,
                 IF s.nrows > 1 /\ s.span # None
                 THEN Rec1("AIS #", s.span)
                 ELSE Rec1("AIS #", fallback_ais_num)),
                 IF s.nrows > 3 THEN Rec1("Institution", "INST") ELSE EmptyDict)

\* the key a first cell gives: its text with the colon removed
DemographicKey(cell) == IF cell = "Race:" THEN "Race" ELSE cell

parse_demographics(page) ==
    IF ~page.demographics.table THEN EmptyDict
    ELSE LET keys == {DemographicKey(c) : c \in page.demographics.keycells} \ {""}
         IN  [k \in keys |-> "VALUE"]

SectionText(shape) == IF shape = "items" THEN "ITEM || ITEM" ELSE ""

parse_text_sections(page) ==
    [k \in {"Aliases", "Scars_Marks and Tattoos"} |->
        IF k = "Aliases" THEN SectionText(page.aliases) ELSE SectionText(page.marks)]

AdmitTable == <<"adm0", "adm1", "adm2">>
CaseTable == <<"case00", "case01", "case10", "case11", "case20", "case21">>

\* the exception _parse_incarceration_history raises on the page, or None
incarceration_history_error(page) ==
    LET bad(kind) ==
          \E i \in 1..Len(page.history) :
             LET h == page.history[i]
             IN  /\ h.nrows >= 2 /\ h.nested.present
                 /\ IF kind = "AttributeError" THEN h.nested.ntr = 0
                    ELSE h.nested.ntr > 1 /\ h.nested.ncells > h.nested.nth
             \* an earlier table that raises ends the parse first
                 /\ \A j \in 1..(i - 1) :
                      LET g == page.history[j]
                      IN  ~(g.nrows >= 2 /\ g.nested.present
                            /\ (g.nested.ntr = 0
                                \/ (g.nested.ntr > 1 /\ g.nested.ncells > g.nested.nth)))
    IN  IF bad("AttributeError") THEN "AttributeError"
        ELSE IF bad("IndexError") THEN "IndexError"
        ELSE None

RECURSIVE SentencesFrom(_, _)
\* all_sentence_details of summary tables i.. of the page
SentencesFrom(page, i) ==
    IF i > Len(page.history) THEN <<>>
    ELSE LET h == page.history[i]
             summary_info == Rec1("Incarceration Admit Date", AdmitTable[i])
             rows == IF h.nrows < 2 \/ ~h.nested.present THEN <<>>
                     ELSE [j \in 1..(h.nested.ntr - 1) |->
                            Update(summary_info,
                                   IF h.nested.ncells >= 1
                                   THEN Rec1("Sentence Case No",
                                             CaseTable[2 * (i - 1) + j])
                                   ELSE EmptyDict)]
         IN  rows \o SentencesFrom(page, i + 1)

parse_incarceration_history(page) == SentencesFrom(page, 1)

\* the same without the base record when the page has no sentence
parse_final_details_page_no_fallback(page, ais_num) ==
    LET base_inmate_data ==
            Update(Update(parse_inmate_summary(page, ais_num),
                          parse_demographics(page)),
                   parse_text_sections(page))
        all_sentence_details == parse_incarceration_history(page)
    IN  [j \in 1..Len(all_sentence_details) |->
            Update(base_inmate_data, all_sentence_details[j])]

parse_final_details_page(page, ais_num) ==
    LET base_inmate_data ==
            Update(Update(parse_inmate_summary(page, ais_num),
                          parse_demographics(page)),
                   parse_text_sections(page))
        all_sentence_details == parse_incarceration_history(page)
    IN  IF all_sentence_details = <<>> THEN << base_inmate_data >>
        ELSE [j \in 1..Len(all_sentence_details) |->
                Update(base_inmate_data, all_sentence_details[j])]

ErrorKinds ==
    {"ValueError", "HTTPError", "ConnectionError", "ReadTimeout",
     "AttributeError", "IndexError"}
ErrorStatus(kind) == "Error: " \o kind
ErrorStatuses == {ErrorStatus(k) : k \in ErrorKinds}

StatusRecord(ais_num, status) ==
    [k \in {"AIS #", "Status"} |-> IF k = "AIS #" THEN ais_num ELSE status]

\* session.get / session.post of process_ais.py pass timeout=30
ProcessTimeout == "30"

\* ----------------------------------------------------- phase 2: the tables
\* a line of the output table is a sequence of cells; a cell keeps, beside its
\* text, the field name the writer wrote it for
HeaderLine(fieldnames) ==
    [i \in 1..Len(fieldnames) |-> [key |-> fieldnames[i], val |-> fieldnames[i]]]

\* csv.DictWriter.writerow with extrasaction='ignore' and restval ''
RowLine(record, fieldnames) ==
    [i \in 1..Len(fieldnames) |->
        [key |-> fieldnames[i],
         val |-> IF fieldnames[i] \in DOMAIN record
                 THEN record[fieldnames[i]] ELSE ""]]

\* the same writing the first record only (writerow for writerows)
RowLines_first_only(records, fieldnames) ==
    IF records = <<>> THEN <<>> ELSE << RowLine(records[1], fieldnames) >>

\* csv.DictWriter.writerows
RowLines(records, fieldnames) ==
    [j \in 1..Len(records) |-> RowLine(records[j], fieldnames)]

\* the position of the column named name in the header line, 0 if it has none
RECURSIVE ColumnIndex(_, _, _)
ColumnIndex(header, name, i) ==
    IF i > Len(header) THEN 0
    ELSE IF header[i].val = name THEN i
    ELSE ColumnIndex(header, name, i + 1)

\* the same reporting a table it has read as not resumable
load_processed_ais_set_never_resuming(file) ==
    IF ~file.exists \/ file.lines = <<>>
    THEN [processed |-> {}, resuming |-> FALSE]
    ELSE LET idx == ColumnIndex(file.lines[1], "AIS #", 1)
         IN  IF idx = 0 THEN [processed |-> {}, resuming |-> FALSE]
             ELSE [processed |->
                      { file.lines[n][idx].val :
                          n \in {m \in 2..Len(file.lines) : Len(file.lines[m]) >= idx} },
                   resuming |-> FALSE]

\* load_processed_ais_set: pandas reads the column under the header 'AIS #' by
\* position; a missing file, an empty file or a header without that column
\* give (set(), False)
load_processed_ais_set(file) ==
    IF ~file.exists \/ file.lines = <<>>
    THEN [processed |-> {}, resuming |-> FALSE]
    ELSE LET idx == ColumnIndex(file.lines[1], "AIS #", 1)
         IN  IF idx = 0 THEN [processed |-> {}, resuming |-> FALSE]
             ELSE [processed |->
                      { file.lines[n][idx].val :
                          n \in {m \in 2..Len(file.lines) : Len(file.lines[m]) >= idx} },
                   resuming |-> TRUE]

\* load_target_ais_numbers: the non-blank lines of the checkpoint list
load_target_ais_numbers(file) == SelectSeq(file.lines, LAMBDA l : l # "")

Range(seq) == {seq[i] : i \in 1..Len(seq)}

NoWriter == [set |-> FALSE, fieldnames |-> <<>>]

\* --------------------------------------------------------- phase 2: a task
Send2(x, method, url, data) ==
    /\ req2' = [req2 EXCEPT ![x] = [method |-> method, url |-> url, data |-> data,
                                    timeout |-> ProcessTimeout]]
    /\ ndetails' = [ndetails EXCEPT ![x] = IF url = DETAILS_URL THEN @ + 1 ELSE @]

\* the same with the except branch returning no record
error_result_empty(ais_num, kind) == <<>>

\* what process_single_ais returns from its except branch
error_result(ais_num, kind) == << StatusRecord(ais_num, ErrorStatus(kind)) >>

Returns(x, records) ==
    /\ pc2' = [pc2 EXCEPT ![x] = "returned"]
    /\ result2' = [result2 EXCEPT ![x] = records]

\* process_single_ais catches exception kind
Catches(x, kind) ==
    /\ raised' = [raised EXCEPT ![x] = kind]
    /\ Returns(x, error_result(x, kind))
    /\ UNCHANGED << req2, ndetails >>

\* process_single_ais up to the landing GET of _get_initial_search_page
StartAis(x) ==
    /\ main2_pc = "as_completed"
    /\ pc2[x] = "submitted"
    /\ pc2' = [pc2 EXCEPT ![x] = "get_landing"]
    /\ Send2(x, "GET", BASE_URL, EmptyDict)
    /\ UNCHANGED << initial_soup, results_soup, final_soup, raised, result2 >>
    /\ UNCHANGED mainVars2

\* the landing page arrives: _post_ais_search builds its payload and posts it
LandingArrives2(x) ==
    /\ main2_pc = "as_completed"
    /\ pc2[x] = "get_landing"
    /\ \E page \in LandingPages :
         /\ initial_soup' = [initial_soup EXCEPT ![x] = page]
         /\ IF hidden_input_missing(page)
            THEN Catches(x, "ValueError")
            ELSE /\ pc2' = [pc2 EXCEPT ![x] = "post_search"]
                 /\ Send2(x, "POST", BASE_URL,
                          Update(parse_hidden_inputs(page),
                                 [k \in {"ctl00$MainContent$txtAIS",
                                         "ctl00$MainContent$btnSearch"} |->
                                    IF k = "ctl00$MainContent$txtAIS"
                                    THEN x ELSE "Search"]))
                 /\ UNCHANGED << raised, result2 >>
    /\ UNCHANGED << results_soup, final_soup >>
    /\ UNCHANGED mainVars2

\* _navigate_to_details_page on the search-result page: "none" when it returns
\* None, "raise" when parse_hidden_inputs raises, "post" when it posts
navigate_to_details_page(page) ==
    IF page.link = "absent" THEN "none"
    ELSE IF hidden_input_missing(page) THEN "raise"
    ELSE IF page.link \in {"no_href", "no_quote"} THEN "none"
    ELSE "post"

\* the search-result page arrives: _navigate_to_details_page
SearchArrives2(x) ==
    /\ main2_pc = "as_completed"
    /\ pc2[x] = "post_search"
    /\ \E page \in ResultPages :
         /\ results_soup' = [results_soup EXCEPT ![x] = page]
         /\ LET way == navigate_to_details_page(page)
            IN  CASE way = "none" ->
                       /\ Returns(x, << StatusRecord(x, "No_Result_Found") >>)
                       /\ UNCHANGED << raised, req2, ndetails >>
                  [] way = "raise" -> Catches(x, "ValueError")
                  [] OTHER ->
                       /\ pc2' = [pc2 EXCEPT ![x] = "post_details"]
                       /\ Send2(x, "POST", DETAILS_URL,
                                Update(parse_hidden_inputs(page),
                                       [k \in {"__EVENTTARGET"} |-> LinkTarget]))
                       /\ UNCHANGED << raised, result2 >>
    /\ UNCHANGED << initial_soup, final_soup >>
    /\ UNCHANGED mainVars2

\* the details page arrives: parse_final_details_page
DetailsArrives(x) ==
    /\ main2_pc = "as_completed"
    /\ pc2[x] = "post_details"
    /\ \E page \in DetailPages(x) :
         /\ final_soup' = [final_soup EXCEPT ![x] = page]
         /\ LET e == incarceration_history_error(page)
            IN  IF e # None THEN Catches(x, e)
                ELSE /\ Returns(x, parse_final_details_page(page, x))
                     /\ UNCHANGED << raised, req2, ndetails >>
    /\ UNCHANGED << initial_soup, results_soup >>
    /\ UNCHANGED mainVars2

\* a request ends in a transport error or a non-2xx status (raise_for_status)
RequestFails2(x) ==
    /\ main2_pc = "as_completed"
    /\ pc2[x] \in {"get_landing", "post_search", "post_details"}
    /\ \E kind \in {"HTTPError", "ConnectionError"} : Catches(x, kind)
    /\ UNCHANGED << initial_soup, results_soup, final_soup >>
    /\ UNCHANGED mainVars2

\* the server never answers: the request's timeout raises in the task
RequestUnanswered2(x) ==
    /\ main2_pc = "as_completed"
    /\ pc2[x] \in {"get_landing", "post_search", "post_details"}
    /\ IF req2[x].timeout = None
       THEN /\ pc2' = [pc2 EXCEPT ![x] = "blocked"]
            /\ UNCHANGED << req2, ndetails, raised, result2 >>
       ELSE Catches(x, "ReadTimeout")
    /\ UNCHANGED << initial_soup, results_soup, final_soup >>
    /\ UNCHANGED mainVars2

\* ------------------------------------------- phase 2: the controlling thread
\* how many times phase 2 is started
MaxRuns == 2

TasksIdle ==
    /\ pc2' = [x \in Ids |-> "idle"]
    /\ initial_soup' = [x \in Ids |-> NoLanding]
    /\ results_soup' = [x \in Ids |-> NoPage]
    /\ final_soup' = [x \in Ids |-> NoDetails]
    /\ req2' = [x \in Ids |-> NoRequest]
    /\ ndetails' = [x \in Ids |-> 0]
    /\ raised' = [x \in Ids |-> None]
    /\ result2' = [x \in Ids |-> <<>>]

\* main() of process_ais.py up to the submission of the tasks
StartRun ==
    /\ main2_pc \in {"idle", "done", "interrupted"}
    /\ run_no < MaxRuns
    /\ run_no' = run_no + 1
    /\ prev_completed' = (main2_pc = "done")
    /\ prev_errors' = run_errors
    /\ run_errors' = {}
    /\ start_lines' = csv_file.lines
    /\ writer' = NoWriter
    /\ processed_count' = 0
    /\ collected2' = {}
    /\ IF checkpoint_file.state = "absent"
       THEN /\ main2_pc' = "done"
            /\ processed_ais_set' = {}
            /\ is_resuming' = FALSE
            /\ numbers_to_process' = <<>>
            /\ UNCHANGED csv_file
            /\ TasksIdle
       ELSE LET all_numbers == load_target_ais_numbers(checkpoint_file)
                loaded == load_processed_ais_set(csv_file)
                todo == SelectSeq(all_numbers, LAMBDA num : num \notin loaded.processed)
            IN  /\ processed_ais_set' = loaded.processed
                /\ is_resuming' = loaded.resuming
                /\ numbers_to_process' = todo
                /\ IF todo = <<>>
                   THEN /\ main2_pc' = "done"
                        /\ UNCHANGED csv_file
                        /\ TasksIdle
                   ELSE /\ main2_pc' = "as_completed"
                        \* open(output_file, 'a' if is_resuming else 'w')
                        /\ csv_file' = IF loaded.resuming THEN csv_file
                                       ELSE [exists |-> TRUE, lines |-> <<>>]
                        /\ pc2' = [x \in Ids |->
                                     IF x \in Range(todo) THEN "submitted" ELSE "idle"]
                        /\ initial_soup' = [x \in Ids |-> NoLanding]
                        /\ results_soup' = [x \in Ids |-> NoPage]
                        /\ final_soup' = [x \in Ids |-> NoDetails]
                        /\ req2' = [x \in Ids |-> NoRequest]
                        /\ ndetails' = [x \in Ids |-> 0]
                        /\ raised' = [x \in Ids |-> None]
                        /\ result2' = [x \in Ids |-> <<>>]

\* the keys of the records, sorted: the fieldnames of the csv.DictWriter
writer_fieldnames(records) ==
    SortedSeq(UNION {DOMAIN records[j] : j \in 1..Len(records)}, KeyOrder)

\* one turn of the as_completed loop of process_and_write_data
CollectResult2(x) ==
    /\ main2_pc = "as_completed"
    /\ pc2[x] = "returned"
    /\ x \notin collected2
    /\ LET result_records == result2[x]
           first == result_records # <<>> /\ ~writer.set
           w == IF first
                THEN [set |-> TRUE, fieldnames |-> writer_fieldnames(result_records)]
                ELSE writer
           header == IF first /\ ~is_resuming
                     THEN << HeaderLine(w.fieldnames) >> ELSE <<>>
       IN  /\ writer' = w
           /\ csv_file' = [csv_file EXCEPT !.lines =
                              @ \o header \o RowLines(result_records, w.fieldnames)]
    /\ processed_count' = processed_count + 1
    /\ collected2' = collected2 \cup {x}
    /\ run_errors' = IF raised[x] # None THEN run_errors \cup {x} ELSE run_errors
    /\ main2_pc' = IF collected2' = Range(numbers_to_process)
                   THEN "done" ELSE "as_completed"
    /\ UNCHANGED << run_no, processed_ais_set, is_resuming, numbers_to_process,
                    start_lines, prev_completed, prev_errors >>
    /\ UNCHANGED taskVars2

\* the process is killed while the run is under way
Interrupt ==
    /\ main2_pc = "as_completed"
    /\ main2_pc' = "interrupted"
    /\ UNCHANGED << run_no, processed_ais_set, is_resuming, numbers_to_process,
                    writer, processed_count, collected2, csv_file, start_lines,
                    prev_completed, prev_errors, run_errors >>
    /\ UNCHANGED taskVars2

\* the checkpoint lists phase 1 can have left: none, or a sorted list
CheckpointFiles ==
    { [state |-> "absent", lines |-> <<>>] }
    \cup { [state |-> "closed", lines |-> sorted_numbers(S)] : S \in SUBSET Ids }

ProcessQuiet ==
    /\ pc2 = [x \in Ids |-> "idle"]
    /\ initial_soup = [x \in Ids |-> NoLanding]
    /\ results_soup = [x \in Ids |-> NoPage]
    /\ final_soup = [x \in Ids |-> NoDetails]
    /\ req2 = [x \in Ids |-> NoRequest]
    /\ ndetails = [x \in Ids |-> 0]
    /\ raised = [x \in Ids |-> None]
    /\ result2 = [x \in Ids |-> <<>>]
    /\ run_no = 0
    /\ main2_pc = "idle"
    /\ processed_ais_set = {}
    /\ is_resuming = FALSE
    /\ numbers_to_process = <<>>
    /\ writer = NoWriter
    /\ processed_count = 0
    /\ collected2 = {}
    /\ csv_file = [exists |-> FALSE, lines |-> <<>>]
    /\ start_lines = <<>>
    /\ prev_completed = FALSE
    /\ prev_errors = {}
    /\ run_errors = {}

CollectQuiet ==
    /\ pc = [t \in Terms |-> "idle"]
    /\ term_ais_numbers = [t \in Terms |-> {}]
    /\ page_num = [t \in Terms |-> 0]
    /\ found_on_page = [t \in Terms |-> {}]
    /\ next_page_target = [t \in Terms |-> None]
    /\ req = [t \in Terms |-> NoRequest]
    /\ nreq = [t \in Terms |-> 0]
    /\ result = [t \in Terms |-> [numbers |-> {}, duration |-> "unset"]]
    /\ main_pc = "idle"
    /\ all_ais_numbers = {}
    /\ collected = {}

InitProcess ==
    /\ CollectQuiet
    /\ checkpoint_file \in CheckpointFiles
    /\ ProcessQuiet

NextProcess ==
    \/ StartRun /\ UNCHANGED collectVars
    \/ \E x \in Ids : StartAis(x) /\ UNCHANGED collectVars
    \/ \E x \in Ids : LandingArrives2(x) /\ UNCHANGED collectVars
    \/ \E x \in Ids : SearchArrives2(x) /\ UNCHANGED collectVars
    \/ \E x \in Ids : DetailsArrives(x) /\ UNCHANGED collectVars
    \/ \E x \in Ids : RequestFails2(x) /\ UNCHANGED collectVars
    \/ \E x \in Ids : RequestUnanswered2(x) /\ UNCHANGED collectVars
    \/ \E x \in Ids : CollectResult2(x) /\ UNCHANGED collectVars
    \/ Interrupt /\ UNCHANGED collectVars

SpecProcess == InitProcess /\ [][NextProcess]_vars

NextCollect ==
    \/ \E t \in Terms : StartTerm(t) /\ UNCHANGED processVars
    \/ \E t \in Terms : LandingArrives(t) /\ UNCHANGED processVars
    \/ \E t \in Terms : SearchArrives(t) /\ UNCHANGED processVars
    \/ \E t \in Terms : NextArrives(t) /\ UNCHANGED processVars
    \/ \E t \in Terms : RequestFails(t) /\ UNCHANGED processVars
    \/ \E t \in Terms : RequestUnanswered(t) /\ UNCHANGED processVars
    \/ \E t \in Terms : CollectResult(t) /\ UNCHANGED processVars
    \/ SaveOpen /\ UNCHANGED processVars
    \/ SaveWrite /\ UNCHANGED processVars

InitCollect ==
    /\ CollectStart
    /\ ProcessQuiet

SpecCollect == InitCollect /\ [][NextCollect]_vars

\* either script is run: the collector from its start, or the processor on a
\* checkpoint list the collector can have left
InitScripts ==
    \/ /\ CollectStart
       /\ ProcessQuiet
    \/ /\ CollectQuiet
       /\ checkpoint_file \in CheckpointFiles
       /\ ProcessQuiet

NextScripts ==
    \/ main_pc # "idle" /\ NextCollect
    \/ main_pc = "idle" /\ NextProcess

SpecScripts == InitScripts /\ [][NextScripts]_vars

\* a step of the task of term t with the server answering its request
TermStep(t) ==
    (StartTerm(t) \/ LandingArrives(t) \/ SearchArrives(t) \/ NextArrives(t))
    /\ UNCHANGED processVars

\* ===================================================== properties, phase 1

Iterates(t) == page_num'[t] # page_num[t]

\* C2: stall detection.  An iteration on a page after the first that finds a
\* next-page control but no identifier outside the running set ends the loop at
\* that page without a further request; an iteration on the first page that
\* finds a next-page control requests page 2 whatever the page holds.
C2_StallDetection ==
    [][\A t \in Terms :
         Iterates(t) /\ next_page_target'[t] # None =>
            /\ (page_num'[t] > 1 /\ found_on_page'[t] \subseteq term_ais_numbers[t]) =>
                  /\ pc'[t] = "returned"
                  /\ nreq'[t] = nreq[t]
                  /\ result'[t] = [numbers |-> term_ais_numbers[t],
                                   duration |-> "positive"]
            /\ page_num'[t] = 1 =>
                  /\ pc'[t] = "post_next"
                  /\ nreq'[t] = nreq[t] + 1
                  /\ req'[t].method = "POST"
                  /\ req'[t].data["__EVENTTARGET"] = next_page_target'[t]
      ]_vars

\* one term stopped on a stalled page, and a term whose first page held no
\* identifier went on to ask for page 2
C2_Witness ==
    /\ \E t \in Terms :
         /\ pc[t] = "returned"
         /\ page_num[t] > 1
         /\ next_page_target[t] # None
         /\ result[t].duration = "positive"
    /\ \E t \in Terms :
         /\ pc[t] = "post_next"
         /\ page_num[t] = 1
         /\ found_on_page[t] = {}

\* a request that was sent
Sent(r) == r.method # None

\* C4: in both pipelines a payload built from a page that lacks one of the
\* three required hidden fields ends in an error, so no POST is ever sent
\* without the three of them.
C4_NoPartialPayload ==
    /\ \A t \in Terms :
         req[t].method = "POST" => RequiredHidden \subseteq DOMAIN req[t].data
    /\ \A x \in Ids :
         req2[x].method = "POST" => RequiredHidden \subseteq DOMAIN req2[x].data

\* C8: every outbound request of both phases carries a finite timeout, and no
\* task hangs on a request the server never answers.
C8_FiniteTimeouts ==
    /\ \A t \in Terms : Sent(req[t]) => req[t].timeout # None
    /\ \A x \in Ids : Sent(req2[x]) => req2[x].timeout # None
    /\ \A t \in Terms : pc[t] # "blocked"
    /\ \A x \in Ids : pc2[x] # "blocked"

\* ===================================================== properties, phase 2

\* the identifiers in the identifier column of a table with these lines
AisColumn(lines) ==
    load_processed_ais_set([exists |-> TRUE, lines |-> lines]).processed

\* how many rows of the table hold y in the identifier column
RowCount(lines, y) ==
    LET idx == IF lines = <<>> THEN 0 ELSE ColumnIndex(lines[1], "AIS #", 1)
    IN  Cardinality({ n \in 2..Len(lines) :
                        idx > 0 /\ Len(lines[n]) >= idx /\ lines[n][idx].val = y })

\* C3: resume idempotence.  A run submits only identifiers of the checkpoint
\* list that are not in the identifier column of the table it found; when it has
\* ended, no identifier that was in that column has more rows than before; and a
\* run started on the table a completed run left submits nothing.
C3_ResumeIdempotent ==
    /\ \A x \in Range(numbers_to_process) :
         /\ x \in Range(checkpoint_file.lines)
         /\ x \notin AisColumn(start_lines)
    /\ main2_pc = "done" =>
         \A y \in AisColumn(start_lines) \cap Ids :
            RowCount(csv_file.lines, y) = RowCount(start_lines, y)
    /\ (run_no >= 2 /\ prev_completed) => numbers_to_process = <<>>

\* a step of the run under way: of one of its tasks, or of the completion loop
RunStep ==
    \E x \in Ids :
        \/ StartAis(x)
        \/ LandingArrives2(x)
        \/ SearchArrives2(x)
        \/ DetailsArrives(x)
        \/ CollectResult2(x)

\* C5: an error raised at any step of process_single_ais ends the task with
\* exactly one record, holding the requested identifier and an Error status;
\* the run is never stuck before every submitted identifier has been collected,
\* and it ends with all of them collected.
C5_ErrorsContained ==
    /\ \A x \in Ids :
         raised[x] # None =>
            /\ pc2[x] = "returned"
            /\ Len(result2[x]) = 1
            /\ DOMAIN result2[x][1] = {"AIS #", "Status"}
            /\ result2[x][1]["AIS #"] = x
            /\ result2[x][1]["Status"] \in ErrorStatuses
    /\ main2_pc = "as_completed" => ENABLED RunStep
    /\ (main2_pc = "done" /\ numbers_to_process # <<>>) =>
         /\ collected2 = Range(numbers_to_process)
         /\ processed_count = Len(numbers_to_process)

\* a run ended in which one task raised and another returned parsed records
C5_Witness ==
    /\ main2_pc = "done"
    /\ \E x, y \in collected2 :
         /\ raised[x] # None
         /\ raised[y] = None
         /\ ndetails[y] = 1

\* C6: when the search-result page holds no detail link, or a link whose
\* handler attribute cannot be parsed, the task returns exactly one record with
\* the requested identifier and Status No_Result_Found, and sends no request to
\* the details endpoint.
C6_NoLinkNoResult ==
    \A x \in Ids :
        results_soup[x].link \in {"absent", "no_href", "no_quote"} =>
            /\ pc2[x] = "returned"
            /\ result2[x] = << StatusRecord(x, "No_Result_Found") >>
            /\ ndetails[x] = 0

\* C7: every record a task returned holds a non-empty identifier: the one of
\* the summary block when row 1's cell holds one, the requested one otherwise.
C7_IdentifierAlways ==
    \A x \in Ids :
        pc2[x] = "returned" =>
            \A j \in 1..Len(result2[x]) :
               LET s == final_soup[x].summary
                   rec == result2[x][j]
               IN  /\ "AIS #" \in DOMAIN rec
                   /\ rec["AIS #"] # ""
                   /\ rec["AIS #"] =
                        IF raised[x] = None /\ s.table /\ s.nrows > 1
                           /\ s.span \notin {None, ""}
                        THEN s.span ELSE x

\* C9: an identifier whose Error outcome a run recorded is in the work set of
\* the next run over the same checkpoint list and the table that run left.
C9_FailedIsRetried ==
    run_no >= 2 => prev_errors \subseteq Range(numbers_to_process)

\* C10: every row of the output table sits under the columns of the header
\* row, whichever run wrote it: as many cells as the header has names, each
\* written for the field the header names at that position.
C10_RowsUnderHeader ==
    \A n \in 2..Len(csv_file.lines) :
        LET header == csv_file.lines[1]
            row == csv_file.lines[n]
        IN  /\ Len(row) = Len(header)
            /\ \A i \in 1..Len(row) : row[i].key = header[i].val

\* whether the records are a status-only outcome of process_single_ais
StatusOnly(records) ==
    \A j \in 1..Len(records) : DOMAIN records[j] = {"AIS #", "Status"}

\* C11: the column set of the writer is the sorted union of the keys of a
\* batch of parsed detail records that was collected; a No_Result_Found or
\* Error outcome that completes first does not become the column set.
C11_SchemaFromParsedBatch ==
    writer.set =>
        \E x \in collected2 :
            /\ ~StatusOnly(result2[x])
            /\ writer.fieldnames = writer_fieldnames(result2[x])

\* ===================================================== properties, phase 1

\* C12: the checkpoint list is written atomically, after every term has been
\* collected: at every instant the file is as it was before the run (absent) or
\* holds the complete sorted list of the accumulated identifiers.
C12_AtomicCheckpoint ==
    /\ checkpoint_file.state # "absent" => collected = Terms
    /\ \/ checkpoint_file = [state |-> "absent", lines |-> <<>>]
       \/ checkpoint_file.lines = sorted_numbers(all_ais_numbers)

\* ===================================================== properties, phase 2

\* the lines the table held when the file was opened: kept in append mode
OpenedLines == IF is_resuming THEN start_lines ELSE <<>>

RECURSIVE RecordCount(_)
\* how many records the tasks of S returned
RecordCount(S) ==
    IF S = {} THEN 0
    ELSE LET x == CHOOSE y \in S : TRUE
         IN  Len(result2[x]) + RecordCount(S \ {x})

\* C13: durability ordering.  Whenever the completion loop is between two
\* results, and after an interruption, the file holds beyond the lines it was
\* opened with (and the header, when this run wrote one) exactly the rows of
\* the tasks handled so far: every record of every handled task is there, in
\* one block, projected on the writer's columns.
C13_HandledIsWritten ==
    numbers_to_process # <<>> =>
        LET lines == csv_file.lines
            first == Len(OpenedLines) + (IF writer.set /\ ~is_resuming THEN 1 ELSE 0)
        IN  /\ Len(lines) = first + RecordCount(collected2)
            /\ SubSeq(lines, 1, Len(OpenedLines)) = OpenedLines
            /\ \A x \in collected2 :
                 \E k \in first..(Len(lines) - Len(result2[x])) :
                    \A j \in 1..Len(result2[x]) :
                       lines[k + j] = RowLine(result2[x][j], writer.fieldnames)

\* the run was interrupted with one task handled, which returned several
\* records, and another not yet handled
C13_Witness ==
    /\ main2_pc = "interrupted"
    /\ \E x \in collected2 : Len(result2[x]) >= 2
    /\ collected2 # Range(numbers_to_process)
    /\ Len(csv_file.lines) >= 3

\* ===================================================== properties, phase 1

\* whether the sequence holds no element twice
NoDuplicates(seq) ==
    \A i, j \in 1..Len(seq) : seq[i] = seq[j] => i = j

\* C14: deduplication across terms.  Whatever sets the terms returned and in
\* whatever order they were collected, the accumulated set is the union of the
\* sets of the terms collected so far, and the saved checkpoint list holds the
\* union of all the terms' sets, each identifier once.
C14_UnionOfTerms ==
    /\ all_ais_numbers = UNION { result[t].numbers : t \in collected }
    /\ main_pc = "done" =>
         /\ NoDuplicates(checkpoint_file.lines)
         /\ Range(checkpoint_file.lines) = UNION { result[t].numbers : t \in Terms }
         /\ Len(checkpoint_file.lines) =
              Cardinality(UNION { result[t].numbers : t \in Terms })

\* the list was saved after two terms returned overlapping, different sets
C14_Witness ==
    /\ main_pc = "done"
    /\ \E t, u \in Terms :
         /\ result[t].numbers \cap result[u].numbers # {}
         /\ result[t].numbers \ result[u].numbers # {}

\* the task of term t ended in the except branch of collect_for_term
Failed(t) == pc[t] = "returned" /\ result[t].duration = "zero"

\* the state of the task of term t
TermState(t) ==
    << pc[t], term_ais_numbers[t], page_num[t], found_on_page[t],
       next_page_target[t], req[t], nreq[t], result[t] >>

\* C15: term failure semantics.  A term whose request failed returns the empty
\* set, whatever its earlier pages held, so the accumulated set holds only
\* identifiers of terms that returned normally; the step in which it fails
\* sends no request and no step after it sends one (no retry); and a step of
\* one term changes nothing of another term nor of the accumulated set.
C15_FailedTermIsEmpty ==
    /\ [](\A t \in Terms : Failed(t) => result[t].numbers = {})
    /\ [](all_ais_numbers \subseteq
            UNION { term_ais_numbers[u] : u \in { v \in collected : ~Failed(v) } })
    /\ [][\A t \in Terms :
            /\ (Failed(t)' => (req'[t] = req[t] /\ nreq'[t] = nreq[t]))
            /\ (TermState(t)' # TermState(t) =>
                  /\ \A u \in Terms \ {t} : TermState(u)' = TermState(u)
                  /\ UNCHANGED << all_ais_numbers, collected, checkpoint_file >>)
       ]_vars

\* a term failed on a page request after it had scraped identifiers, and was
\* collected along with a term that returned identifiers
C15_Witness ==
    \E t, u \in collected :
        /\ Failed(t)
        /\ page_num[t] >= 1
        /\ term_ais_numbers[t] # {}
        /\ ~Failed(u)
        /\ result[u].numbers # {}
        /\ all_ais_numbers = result[u].numbers

\* ===================================================== properties, phase 2

\* the fields a search POST adds to the hidden inputs
SearchFields(field, value) ==
    [k \in {field, "ctl00$MainContent$btnSearch"} |->
        IF k = field THEN value ELSE "Search"]

\* the field a postback adds to the hidden inputs
EventTarget(target) == [k \in {"__EVENTTARGET"} |-> target]

\* C16: the payload of every POST is all the hidden inputs of the response
\* received just before it, merged with the fields the caller supplies, the
\* caller's value winning: the search POST and the details POST of a detail
\* fetch, on the pages the task holds, and the search POST and next-page POSTs
\* of an enumeration, on a page of the preceding serial.
C16_AllHiddenInputsReplayed ==
    /\ \A x \in Ids :
         /\ (req2[x].method = "POST" /\ req2[x].url = BASE_URL) =>
               req2[x].data = Update(HiddenInputs(initial_soup[x]),
                                     SearchFields("ctl00$MainContent$txtAIS", x))
         /\ (req2[x].method = "POST" /\ req2[x].url = DETAILS_URL) =>
               req2[x].data = Update(HiddenInputs(results_soup[x]),
                                     EventTarget(LinkTarget))
    /\ \A t \in Terms :
         req[t].method = "POST" =>
            \E h \in HiddenSets :
               req[t].data =
                  Update([k \in h |-> Token(nreq[t] - 2)],
                         IF nreq[t] = 2
                         THEN SearchFields("ctl00$MainContent$txtLName", t)
                         ELSE EventTarget(BtnNext))

RECURSIVE SentenceRowCount(_, _)
\* the sentence rows (rows after the header row) of the nested tables of the
\* summary tables i.. of the page that have one
SentenceRowCount(page, i) ==
    IF i > Len(page.history) THEN 0
    ELSE LET h == page.history[i]
         IN  (IF h.nested.present /\ h.nested.ntr > 1 THEN h.nested.ntr - 1 ELSE 0)
             + SentenceRowCount(page, i + 1)

\* the task of x received a details page and has returned
DetailsParsed(x) ==
    /\ pc2[x] = "returned"
    /\ ndetails[x] = 1
    /\ raised[x] \notin {"HTTPError", "ConnectionError", "ReadTimeout"}

\* C17: record count of the detail parser.  On every details page it returns
\* one record per sentence row of the summary tables that have a nested table,
\* each holding the base fields and the sentence's fields, and exactly one
\* record, the base alone, when there is no sentence row.
C17_OneRecordPerSentence ==
    \A x \in Ids :
        DetailsParsed(x) =>
            LET page == final_soup[x]
                base == Update(Update(parse_inmate_summary(page, x),
                                      parse_demographics(page)),
                               parse_text_sections(page))
                n == SentenceRowCount(page, 1)
            IN  /\ raised[x] = None
                /\ Len(result2[x]) = IF n = 0 THEN 1 ELSE n
                /\ n = 0 => result2[x] = << base >>
                /\ \A j \in 1..Len(result2[x]) :
                     /\ \A k \in DOMAIN base :
                          k \in DOMAIN result2[x][j] /\ result2[x][j][k] = base[k]
                     /\ n > 0 => "Sentence Case No" \in DOMAIN result2[x][j]

\* ============================================= properties, both pipelines

TaskState2(x) ==
    << pc2[x], initial_soup[x], results_soup[x], final_soup[x], req2[x],
       ndetails[x], raised[x], result2[x] >>

\* what the completion loops and the save write
SharedCollect == << all_ais_numbers, collected, checkpoint_file >>
SharedProcess == << csv_file, writer, processed_count, collected2 >>

\* C19: no state has two writers.  A step that changes the state of a task
\* (its session, its pages, its result) changes that of no other task and none
\* of the shared state; the accumulated set, the checkpoint file, the output
\* file, the writer and the processed counter change only in steps that change
\* no task, and such a step takes in at most one result.  (The start of a run
\* of phase 2 submits the tasks and opens the file.)
C19_SingleWriter ==
    [][ /\ \A t \in Terms :
             TermState(t)' # TermState(t) =>
                /\ \A u \in Terms \ {t} : TermState(u)' = TermState(u)
                /\ SharedCollect' = SharedCollect
        /\ SharedCollect' # SharedCollect =>
             /\ \A t \in Terms : TermState(t)' = TermState(t)
             /\ \/ collected' = collected
                \/ \E t \in Terms \ collected : collected' = collected \cup {t}
        /\ run_no' = run_no =>
             /\ \A x \in Ids :
                  TaskState2(x)' # TaskState2(x) =>
                     /\ \A y \in Ids \ {x} : TaskState2(y)' = TaskState2(y)
                     /\ SharedProcess' = SharedProcess
             /\ SharedProcess' # SharedProcess =>
                  /\ \A x \in Ids : TaskState2(x)' = TaskState2(x)
                  /\ \E x \in Ids \ collected2 : collected2' = collected2 \cup {x}
                  /\ processed_count' = processed_count + 1
      ]_vars

\* the completion loop of phase 2 has handled one result while another task is
\* waiting for its details page
C19_Witness ==
    /\ main2_pc = "as_completed"
    /\ processed_count = 1
    /\ \E x \in Ids : pc2[x] = "post_details" /\ x \notin collected2
    /\ Len(csv_file.lines) >= 2

\* ===================================================== properties, phase 2

\* C20: a run over a work set.  The tasks of the run are those of the
\* identifiers of the work set, submitted at its start and never again; every
\* turn of the completion loop takes in one task that had not been taken in,
\* counts it and adds at least one row to the file; and a run that was not
\* interrupted ends with every identifier of the work set collected and the
\* processed count equal to the size of the work set.
C20_EveryIdentifierOnce ==
    /\ [](numbers_to_process # <<>> =>
            /\ NoDuplicates(numbers_to_process)
            /\ \A x \in Ids : pc2[x] # "idle" <=> x \in Range(numbers_to_process)
            /\ collected2 \subseteq Range(numbers_to_process)
            /\ processed_count = Cardinality(collected2))
    /\ [](main2_pc = "done" /\ numbers_to_process # <<>> =>
            /\ collected2 = Range(numbers_to_process)
            /\ \A x \in collected2 : Len(result2[x]) >= 1
            /\ processed_count = Len(numbers_to_process)
            /\ Len(csv_file.lines) >= Len(OpenedLines) + Len(numbers_to_process))
    /\ [][run_no' = run_no =>
            \A x \in Ids :
               /\ pc2'[x] = "submitted" => pc2[x] = "submitted"
               /\ x \in collected2 => x \in collected2'
               /\ (x \in collected2' /\ x \notin collected2) =>
                     /\ pc2[x] = "returned"
                     /\ collected2' = collected2 \cup {x}
                     /\ Len(csv_file'.lines) >= Len(csv_file.lines) + 1
       ]_vars

\* a run over two identifiers ended; one of them gave three rows
C20_Witness ==
    /\ main2_pc = "done"
    /\ Len(numbers_to_process) = 2
    /\ collected2 = Ids
    /\ \E x \in Ids : Len(result2[x]) = 3

\* whether the lines start with the lines kept
StartsWith(lines, kept) ==
    /\ Len(lines) >= Len(kept)
    /\ SubSeq(lines, 1, Len(kept)) = kept

\* C21: starting phase 2 destroys no row.  A step takes lines away from the
\* output file only when it starts a run on a file that is absent, empty or
\* without an identifier column in its header; a run started on a table whose
\* identifier column was read, with work left, is a resuming run that finds the
\* file as it was; and through a resuming run the file starts with the lines it
\* had when the run started.
C21_ExistingRowsKept ==
    /\ [][ /\ ~StartsWith(csv_file'.lines, csv_file.lines) =>
                /\ run_no' # run_no
                /\ \/ ~csv_file.exists
                   \/ csv_file.lines = <<>>
                   \/ ColumnIndex(csv_file.lines[1], "AIS #", 1) = 0
           /\ ( /\ run_no' # run_no
                /\ numbers_to_process' # <<>>
                /\ csv_file.exists
                /\ csv_file.lines # <<>>
                /\ ColumnIndex(csv_file.lines[1], "AIS #", 1) # 0 ) =>
                   /\ is_resuming'
                   /\ csv_file' = csv_file
       ]_vars
    /\ [](is_resuming => StartsWith(csv_file.lines, start_lines))

\* a second run resumed on a table with rows and ended with rows added
C21_Witness ==
    /\ run_no = 2
    /\ is_resuming
    /\ main2_pc = "done"
    /\ Len(start_lines) >= 2
    /\ Len(csv_file.lines) > Len(start_lines)

====
